---- MODULE Spec2Model ----
(***************************************************************************)
(* State-machine model of the CEIL Discord bot (src/main.py): the message  *)
(* pipeline of on_message, the moderation commands, the admin slash        *)
(* commands, the deferred unmute tasks and the configuration store.        *)
(*                                                                         *)
(* Handlers are coroutines of one asyncio loop.  Every ledger mutation of  *)
(* a handler happens between two awaits, so a handler is one action; the   *)
(* deferred unmute_later tasks are separate actions that fire once their   *)
(* sleep has elapsed.  Text is modelled as a sequence of one-character     *)
(* strings so that lower(), strip() and substring containment are computed *)
(* rather than assumed.  Time is the integer number of seconds returned by *)
(* datetime.utcnow().timestamp().                                          *)
(***************************************************************************)
EXTENDS Integers, Sequences, FiniteSets, TLC

(***************************************************************************)
(* Text                                                                    *)
(***************************************************************************)
UpperChars == <<"A","B","C","D","E","F","G","H","I","J","K","L","M",
                "N","O","P","Q","R","S","T","U","V","W","X","Y","Z">>

LowerChars == <<"a","b","c","d","e","f","g","h","i","j","k","l","m",
                "n","o","p","q","r","s","t","u","v","w","x","y","z">>

\* str.lower() on one character
LowerChar(c) ==
    IF \E i \in 1..Len(UpperChars) : UpperChars[i] = c
    THEN LowerChars[CHOOSE i \in 1..Len(UpperChars) : UpperChars[i] = c]
    ELSE c

\* str.lower()
Lower(s) == [i \in 1..Len(s) |-> LowerChar(s[i])]

\* mutant: the characters of sub occur in s in order, not side by side
RECURSIVE Contains_Scattered(_, _)
Contains_Scattered(sub, s) ==
    IF sub = <<>> THEN TRUE
    ELSE IF s = <<>> THEN FALSE
    ELSE IF Head(sub) = Head(s) THEN Contains_Scattered(Tail(sub), Tail(s))
    ELSE Contains_Scattered(sub, Tail(s))

\* Python's `sub in s` on strings
Contains(sub, s) ==
    \E i \in 1..(Len(s) - Len(sub) + 1) : SubSeq(s, i, i + Len(sub) - 1) = sub

\* str.startswith
StartsWith(s, p) == Len(s) >= Len(p) /\ SubSeq(s, 1, Len(p)) = p

IsSpace(c) == c = " "

\* str.strip(): drop leading and trailing whitespace
Strip(s) ==
    IF \A i \in 1..Len(s) : IsSpace(s[i]) THEN <<>>
    ELSE LET lo == CHOOSE i \in 1..Len(s) :
                       ~IsSpace(s[i]) /\ \A j \in 1..(i - 1) : IsSpace(s[j])
             hi == CHOOSE i \in 1..Len(s) :
                       ~IsSpace(s[i]) /\ \A j \in (i + 1)..Len(s) : IsSpace(s[j])
         IN  SubSeq(s, lo, hi)

\* any(x in s for x in xs)
AnyIn(xs, s) == \E i \in 1..Len(xs) : Contains(xs[i], s)

\* membership in a Python list
InList(x, xs) == \E i \in 1..Len(xs) : xs[i] = x

(***************************************************************************)
(* Program constants                                                       *)
(***************************************************************************)
SPAM_WINDOW_SECONDS == 8
SPAM_MAX_MESSAGES == 7
AUTO_MUTE_MINUTES == 15
XP_PER_MESSAGE == 10
SECONDS_PER_DAY == 86400

DEFAULT_AI_CHANNEL_NAMES == {"ceil-assistant", "coordination-hub", "academic-assistant"}

STAFF_ROLES == {"Coordinator", "Deputy Coordinator", "Moderator"}

m_ceil == <<"c","e","i","l">>
m_education == <<"e","d","u","c","a","t","i","o","n">>
m_admin == <<"a","d","m","i","n">>
m_general == <<"g","e","n","e","r","a","l">>
m_fun == <<"f","u","n">>

\* the keys of AI_MODES
AI_MODES == {m_ceil, m_education, m_admin, m_general, m_fun}

w_fuck == <<"f","u","c","k">>
w_shit == <<"s","h","i","t">>
w_bitch == <<"b","i","t","c","h">>
w_spam == <<"s","p","a","m">>

link_triggers ==
    << <<"h","t","t","p",":","/","/">>,
       <<"h","t","t","p","s",":","/","/">>,
       <<"d","i","s","c","o","r","d",".","g","g","/">>,
       <<".","c","o","m">>,
       <<".","n","e","t">>,
       <<".","o","r","g">> >>

FEATURE_KEYS ==
    [ai |-> "ai_enabled", moderation |-> "moderation_enabled",
     spam |-> "spam_protection", links |-> "link_blocking",
     daily |-> "daily_summary", weekly |-> "weekly_summary", xp |-> "xp_enabled"]

\* DEFAULT_CONFIG without its banned_words list, which is a mutable list
\* object shared by reference (see default_banned)
DEFAULT_FLAGS ==
    [ai_enabled |-> TRUE, moderation_enabled |-> TRUE, spam_protection |-> TRUE,
     link_blocking |-> TRUE, daily_summary |-> TRUE, weekly_summary |-> TRUE,
     xp_enabled |-> TRUE, ai_default_mode |-> m_ceil]

DEFAULT_BANNED_INIT == <<w_fuck, w_shit, w_bitch>>

(***************************************************************************)
(* The community: members, their roles, channels                           *)
(***************************************************************************)
SelfBot == "ceilbot"

Humans == {"alice", "mod"}

Bots == {SelfBot, "otherbot"}

Actors == Humans \cup Bots

\* member.roles by role name, for the staff check
RoleNames(a) == IF a = "mod" THEN {"@everyone", "Moderator"} ELSE {"@everyone"}

is_staff(a) == \E r \in RoleNames(a) : r \in STAFF_ROLES

IsBot(a) == a \in Bots

Channels == {"general", "ceil-assistant"}

Guild == "g1"

(***************************************************************************)
(* Python dicts are functions whose domain is the set of keys present      *)
(***************************************************************************)
EmptyDict == [k \in {} |-> 0]

Has(d, k) == k \in DOMAIN d

Get(d, k, default) == IF k \in DOMAIN d THEN d[k] ELSE default

Put(d, k, v) == [x \in (DOMAIN d) \cup {k} |-> IF x = k THEN v ELSE d[x]]

Pop(d, k) == [x \in (DOMAIN d) \ {k} |-> d[x]]

\* list.append / list.remove (first occurrence)
Append1(xs, x) == Append(xs, x)

Remove1(xs, x) ==
    LET i == CHOOSE j \in 1..Len(xs) : xs[j] = x /\ \A k \in 1..(j - 1) : xs[k] # x
    IN  SubSeq(xs, 1, i - 1) \o SubSeq(xs, i + 1, Len(xs))

\* mutant: the window is never pruned
FilterWindow_KeepAll(xs, now_ts) == xs

\* [t for t in xs if now_ts - t <= SPAM_WINDOW_SECONDS]
RECURSIVE FilterWindow(_, _)
FilterWindow(xs, now_ts) ==
    IF xs = <<>> THEN <<>>
    ELSE IF now_ts - Head(xs) <= SPAM_WINDOW_SECONDS
         THEN <<Head(xs)>> \o FilterWindow(Tail(xs), now_ts)
         ELSE FilterWindow(Tail(xs), now_ts)

(***************************************************************************)
(* State                                                                   *)
(***************************************************************************)
VARIABLES
    now,                    \* the clock read by datetime.utcnow()
    log_channel,            \* whether the guild has a #ceil-logs text channel
    config,                 \* the config dict; banned_words is a list reference
    default_banned,         \* contents of the list DEFAULT_CONFIG["banned_words"]
    config_file,            \* config.json
    channel_modes,          \* {channel_id: mode_name}
    slowmode_settings,      \* {channel_id: seconds}
    last_message_time,      \* {(channel_id, user_id): timestamp}
    spam_tracker,           \* {(guild_id, user_id): [timestamps]}
    xp_data,                \* {user_id: {"xp", "level"}}
    xp_file,                \* xp_data.json
    messages_today,         \* {guild_id: count}
    new_members_today,      \* {guild_id: count}
    last_stats_reset_date,  \* {guild_id: date}
    guild_roles,            \* ids of the guild's roles named "Muted", in order
    member_roles,           \* for each member, the Muted role ids it carries
    tasks,                  \* pending unmute_later tasks
    next_id,                \* number of mute requests made so far
    hist,                   \* history variables (not program state)
    out,                    \* what the last handler did (not program state)
    handled,                \* messages handled so far, where a specification
                            \* bounds their number (not program state)
    ai_call,                \* the OpenAI request the thread of the event loop
                            \* is inside, where a specification looks into
                            \* the AI stage; NoCall otherwise
    posts,                  \* history: when each author's first messages
                            \* reached the spam stage, where a specification
                            \* follows a burst (not program state)
    inflight                \* the mute handlers suspended in
                            \* `await guild.create_role(...)`, where a
                            \* specification interleaves handlers

cfgVars == <<config, default_banned, config_file>>

chanVars == <<channel_modes, slowmode_settings>>

ledgerVars == <<last_message_time, spam_tracker, xp_data, xp_file,
                messages_today, new_members_today, last_stats_reset_date>>

muteVars == <<guild_roles, member_roles, tasks, next_id>>

vars == <<now, log_channel, cfgVars, chanVars, ledgerVars, muteVars, hist, out,
          handled, ai_call, posts, inflight>>

(***************************************************************************)
(* Config store                                                            *)
(***************************************************************************)
\* DEFAULT_CONFIG.copy() is a shallow copy: the copy's banned_words is the
\* very list object of DEFAULT_CONFIG (shared = TRUE), not a copy of it
DefaultCopy == [flags |-> DEFAULT_FLAGS, shared |-> TRUE, banned |-> <<>>]

\* the list config["banned_words"]
BannedOf(cfg, dflt) == IF cfg.shared THEN dflt ELSE cfg.banned

\* the module global BANNED_WORDS: load_config rebinds it to config's list
BANNED_WORDS == BannedOf(config, default_banned)

\* load_config(): the new value of config.  A file of kind "ok" holds a
\* JSON object, one of kind "nowords" a JSON object without the key
\* banned_words; flags holds the object's other keys.  setdefault fills in
\* the keys of DEFAULT_CONFIG the object lacks, with the values of
\* DEFAULT_CONFIG themselves: a filled-in banned_words is the list object of
\* DEFAULT_CONFIG.  A file that holds JSON which is no object makes line 65
\* raise: see admin_reload.
load_config(file) ==
    LET filled == [k \in DOMAIN DEFAULT_FLAGS \cup DOMAIN file.flags |->
                      IF k \in DOMAIN file.flags THEN file.flags[k]
                      ELSE DEFAULT_FLAGS[k]]
    IN  IF file.kind = "ok"
        THEN [flags |-> filled, shared |-> FALSE, banned |-> file.banned]
        ELSE IF file.kind = "nowords"
        THEN [flags |-> filled, shared |-> TRUE, banned |-> <<>>]
        ELSE DefaultCopy

\* mutant: the banned-word list is not written
save_config_FlagsOnly(cfg, dflt) ==
    [kind |-> "nowords", flags |-> cfg.flags, banned |-> <<>>]

\* save_config(): the new content of config.json
save_config(cfg, dflt) ==
    [kind |-> "ok", flags |-> cfg.flags, banned |-> BannedOf(cfg, dflt)]

AbsentFile == [kind |-> "absent", flags |-> DEFAULT_FLAGS, banned |-> <<>>]

CorruptFile == [kind |-> "corrupt", flags |-> DEFAULT_FLAGS, banned |-> <<>>]

(***************************************************************************)
(* Experience ledger and daily counters                                    *)
(***************************************************************************)
\* mutant: the level is raised at most once per call
LevelLoop_Once(xp, level) == IF xp >= level * 100 THEN level + 1 ELSE level

\* the while loop of add_xp
RECURSIVE LevelLoop(_, _)
LevelLoop(xp, level) == IF xp >= level * 100 THEN LevelLoop(xp, level + 1) ELSE level

\* mutant: level n + 1 costs n * 100 points more than level n did
add_xp_Cumulative(data, uid, amount) ==
    LET rec0 == IF Has(data, uid) THEN data[uid] ELSE [xp |-> 0, level |-> 1]
        xp == rec0.xp + amount
        level == CHOOSE l \in 1..(xp \div 100 + 1) :
                     l * (l - 1) * 50 <= xp /\ (l + 1) * l * 50 > xp
    IN  Put(data, uid, [xp |-> xp, level |-> level])

\* add_xp: the new xp_data
add_xp(data, uid, amount) ==
    LET rec0 == IF Has(data, uid) THEN data[uid] ELSE [xp |-> 0, level |-> 1]
        xp == rec0.xp + amount
    IN  Put(data, uid, [xp |-> xp, level |-> LevelLoop(xp, rec0.level)])

\* mutant: reaching a threshold exactly is not reported as a level-up
leveled_up_Strict(data, uid, amount) ==
    LET rec0 == IF Has(data, uid) THEN data[uid] ELSE [xp |-> 0, level |-> 1]
    IN  rec0.xp + amount > rec0.level * 100

\* add_xp's return value leveled_up
leveled_up(data, uid, amount) ==
    LET rec0 == IF Has(data, uid) THEN data[uid] ELSE [xp |-> 0, level |-> 1]
    IN  rec0.xp + amount >= rec0.level * 100

\* datetime.utcnow().date()
DateOf(t) == t \div SECONDS_PER_DAY

\* track_daily_message: the new (messages_today, new_members_today, reset date)
track_daily_message(mt, nm, rd, t) ==
    LET today == DateOf(t)
        reset == ~Has(rd, Guild) \/ rd[Guild] # today
        mt1 == IF reset THEN Put(mt, Guild, 0) ELSE mt
    IN  [mt |-> Put(mt1, Guild, Get(mt1, Guild, 0) + 1),
         nm |-> IF reset THEN Put(nm, Guild, Get(nm, Guild, 0)) ELSE nm,
         rd |-> IF reset THEN Put(rd, Guild, today) ELSE rd]

\* track_new_member: the new (messages_today, new_members_today, reset date)
track_new_member(mt, nm, rd, t) ==
    LET today == DateOf(t)
        reset == ~Has(rd, Guild) \/ rd[Guild] # today
        nm1 == IF reset THEN Put(nm, Guild, 0) ELSE nm
    IN  [mt |-> IF reset THEN Put(mt, Guild, Get(mt, Guild, 0)) ELSE mt,
         nm |-> Put(nm1, Guild, Get(nm1, Guild, 0) + 1),
         rd |-> IF reset THEN Put(rd, Guild, today) ELSE rd]

(***************************************************************************)
(* What a handler did: rewritten by every action                           *)
(***************************************************************************)
NoMsg == [author |-> "", channel |-> "", content |-> <<>>, mentioned |-> FALSE,
          dm |-> FALSE, fail |-> {}]

\* the thread of the event loop is inside no OpenAI request
NoCall == [msg |-> NoMsg, mode |-> <<>>]

NoOut ==
    [op |-> "init", msg |-> NoMsg, invoker |-> "", member |-> "",
     rejected |-> FALSE,      \* the invoker got a refusal, nothing was done
     raised |-> FALSE,        \* the handler ended in an exception
     deleted |-> "none",      \* the stage that deleted the message
     notices |-> <<>>,        \* notices delivered, in order
     automuted |-> FALSE,     \* the spam stage applied a mute
     window |-> 0,            \* the window size the spam stage compared
     scheduled |-> 0,         \* id of the unmute_later task created
     removed |-> FALSE,       \* a Muted role was taken from the member
     task |-> 0,              \* id of the unmute_later task that fired
     purged |-> 0,            \* messages removed by purge, the command included
     levelup |-> FALSE,       \* add_xp returned leveled_up
     level |-> 0,             \* the level add_xp returned
     amount |-> 0,            \* the points add_xp was called with
     arg |-> <<>>,            \* the text a command was called with
     msgs |-> 0,              \* the message count a daily summary reported
     joins |-> 0,             \* the new-member count a daily summary reported
     ai |-> FALSE,            \* handed to the AI collaborator
     ai_mode |-> <<>>]

\* the part of the state a handler run threads through its stages
Ledgers ==
    [lmt |-> last_message_time, spam |-> spam_tracker, xp |-> xp_data,
     xpf |-> xp_file, mt |-> messages_today, nm |-> new_members_today,
     rd |-> last_stats_reset_date, groles |-> guild_roles,
     mroles |-> member_roles, tasks |-> tasks, nid |-> next_id,
     hist |-> hist, out |-> NoOut, done |-> FALSE]

\* a call add_xp(uid, amount), which also writes xp_data.json
award(uid, amount) ==
    LET xp == add_xp(xp_data, uid, amount)
    IN  /\ xp_data' = xp
        /\ xp_file' = xp
        /\ out' = [NoOut EXCEPT !.op = "award", !.member = uid, !.amount = amount,
                                !.levelup = leveled_up(xp_data, uid, amount),
                                !.level = xp[uid].level]
        /\ UNCHANGED <<now, log_channel, cfgVars, chanVars, last_message_time,
                       spam_tracker, messages_today, new_members_today,
                       last_stats_reset_date, muteVars, hist>>

\* `await x.send(...)`: the notice is delivered, or the call raises
Send(p, kind, fails) ==
    IF fails THEN [p EXCEPT !.out.raised = TRUE, !.done = TRUE]
    ELSE [p EXCEPT !.out.notices = Append(@, kind)]

\* log_ch = await get_log_channel(guild); if log_ch: await log_ch.send(...)
SendLog(p, kind, fail) ==
    IF log_channel THEN Send(p, kind, "log" \in fail) ELSE p

(***************************************************************************)
(* Mute ledger: the Muted role and the deferred reversal                   *)
(***************************************************************************)
\* discord.utils.get(guild.roles, name="Muted"), then create_role if absent:
\* the role used and the guild's Muted roles afterwards
MutedRole(groles) ==
    IF groles # <<>> THEN [role |-> Head(groles), groles |-> groles]
    ELSE [role |-> 1, groles |-> <<1>>]

\* await member.add_roles(muted_role), as request number id
AddRole(p, member, role, id) ==
    [p EXCEPT !.mroles[member] = @ \cup {role},
              !.hist.owner[member] = IF p.mroles[member] = {} THEN {id} ELSE @ \cup {id},
              !.hist.cleared = @ \ {t.id : t \in {u \in p.tasks : u.actor = member}}]

\* bot.loop.create_task(unmute_later()): the closure captures the member, the
\* role object, the log channel found at mute time and the delay
CreateTask(p, member, role, id, delay) ==
    [p EXCEPT !.tasks = @ \cup {[id |-> id, actor |-> member, role |-> role,
                                 at |-> now + delay, log |-> log_channel]},
              !.out.scheduled = id,
              !.hist.latest[member] = [id |-> id, at |-> now + delay],
              !.hist.unmuted[member] = FALSE]

(***************************************************************************)
(* on_message: the stages, in the order of the code                        *)
(***************************************************************************)
\* mutant: the banned-word filter deletes and reports, but does not return
BannedStage_NoReturn(p, m) ==
    IF config.flags.moderation_enabled /\ AnyIn(BANNED_WORDS, Lower(m.content))
    THEN SendLog([p EXCEPT !.out.deleted = "banned"], "log_banned", m.fail)
    ELSE p

\* lines 303-312
BannedStage(p, m) ==
    IF config.flags.moderation_enabled /\ AnyIn(BANNED_WORDS, Lower(m.content))
    THEN [SendLog([p EXCEPT !.out.deleted = "banned"], "log_banned", m.fail)
             EXCEPT !.done = TRUE]
    ELSE p

\* lines 317-328
LinkStage(p, m) ==
    IF /\ config.flags.moderation_enabled /\ config.flags.link_blocking
       /\ ~IsBot(m.author) /\ ~is_staff(m.author)
       /\ AnyIn(link_triggers, Lower(m.content))
    THEN [SendLog([p EXCEPT !.out.deleted = "link"], "log_link", m.fail)
             EXCEPT !.done = TRUE]
    ELSE p

\* mutant: a message sent exactly one cooldown after the last one is rejected
SlowmodeRejects_AtMost(now_ts, last, delay, author) ==
    now_ts - last <= delay /\ ~is_staff(author)

\* the test of line 340
SlowmodeRejects(now_ts, last, delay, author) ==
    now_ts - last < delay /\ ~is_staff(author)

\* lines 333-350
SlowmodeStage(p, m) ==
    IF ~IsBot(m.author) /\ Has(slowmode_settings, m.channel)
    THEN LET delay == slowmode_settings[m.channel]
             key == <<m.channel, m.author>>
             last == Get(p.lmt, key, 0)
         IN  IF SlowmodeRejects(now, last, delay, m.author)
             THEN \* the private notice is inside try/except: a failure is dropped
                  [p EXCEPT !.out.deleted = "slowmode",
                            !.out.notices =
                                IF "dm" \in m.fail THEN @ ELSE Append(@, "dm_slowmode"),
                            !.done = TRUE]
             ELSE [p EXCEPT !.lmt = Put(@, key, now)]
    ELSE p

\* history: when the author's first SPAM_MAX_MESSAGES messages reached the
\* spam stage
FirstPosts(times, t) ==
    IF Len(times) < SPAM_MAX_MESSAGES THEN Append(times, t) ELSE times

\* mutant: the threshold has to be exceeded
SpamTriggered_Above(window, author) ==
    Len(window) > SPAM_MAX_MESSAGES /\ ~is_staff(author)

\* the test of line 369
SpamTriggered(window, author) ==
    Len(window) >= SPAM_MAX_MESSAGES /\ ~is_staff(author)

\* lines 371-393
AutoMute(p, m) ==
    LET id == p.nid + 1
        got == MutedRole(p.groles)
        p1 == AddRole([p EXCEPT !.nid = id, !.groles = got.groles,
                                !.out.automuted = TRUE],
                      m.author, got.role, id)
        p2 == SendLog(p1, "log_automute", m.fail)
    IN  IF p2.done THEN p2
        ELSE CreateTask(p2, m.author, got.role, id, AUTO_MUTE_MINUTES * 60)

\* lines 355-393
SpamStage(p, m) ==
    IF /\ config.flags.moderation_enabled /\ config.flags.spam_protection
       /\ ~IsBot(m.author)
    THEN LET key == <<Guild, m.author>>
             window == FilterWindow(Append(Get(p.spam, key, <<>>), now), now)
             p1 == [p EXCEPT !.spam = Put(@, key, window),
                             !.out.window = Len(window),
                             !.hist.spam_at = Put(@, key, now)]
         IN  IF SpamTriggered(window, m.author) THEN AutoMute(p1, m) ELSE p1
    ELSE p

\* history: the events of each kind observed on the date of the last event
Observed(seen, kind, t) ==
    LET today == DateOf(t)
        s0 == IF seen.day = today THEN seen
              ELSE [day |-> today, msgs |-> 0, joins |-> 0]
    IN  IF kind = "message" THEN [s0 EXCEPT !.msgs = @ + 1]
        ELSE [s0 EXCEPT !.joins = @ + 1]

\* lines 398-404
XpStage(p, m) ==
    IF config.flags.xp_enabled /\ ~IsBot(m.author) /\ Len(Strip(m.content)) > 2
    THEN LET d == track_daily_message(p.mt, p.nm, p.rd, now)
             xp == add_xp(p.xp, m.author, XP_PER_MESSAGE)
             p1 == [p EXCEPT !.mt = d.mt, !.nm = d.nm, !.rd = d.rd,
                             !.xp = xp, !.xpf = xp,
                             !.hist.seen = Observed(@, "message", now)]
             p2 == [p1 EXCEPT !.out.amount = XP_PER_MESSAGE,
                              !.out.level = xp[m.author].level]
         IN  IF leveled_up(p.xp, m.author, XP_PER_MESSAGE)
             THEN Send([p2 EXCEPT !.out.levelup = TRUE], "levelup", "post" \in m.fail)
             ELSE p2
    ELSE p

\* mutant: a mode set for the channel does not make the bot answer
should_ai_reply_NoModes(m) ==
    m.mentioned \/ m.channel \in DEFAULT_AI_CHANNEL_NAMES

\* lines 415-420
should_ai_reply(m) ==
    m.mentioned \/ m.channel \in DEFAULT_AI_CHANNEL_NAMES \/ Has(channel_modes, m.channel)

\* lines 409-431
AiStage(p, m) ==
    IF ~config.flags.ai_enabled THEN [p EXCEPT !.done = TRUE]
    ELSE IF should_ai_reply(m)
         THEN Send([p EXCEPT !.out.ai = TRUE,
                             !.out.ai_mode = Get(channel_modes, m.channel,
                                                 config.flags.ai_default_mode)],
                   "ai_reply", "reply" \in m.fail)
         ELSE p

\* lines 283-404.  process_commands (line 289) runs the command handler a
\* message names: that handler is one of the command actions below, and the
\* await of line 289 lets other handlers run before the stages, so a command
\* message is two steps, the command and then the stages on its text; a
\* stage runs unless the handler has returned or raised (done)
ModerationStages(m) ==
    LET p0 == Ledgers
        p1 == IF m.author = SelfBot \/ m.dm THEN [p0 EXCEPT !.done = TRUE] ELSE p0
        p2 == IF p1.done THEN p1 ELSE BannedStage(p1, m)
        p3 == IF p2.done THEN p2 ELSE LinkStage(p2, m)
        p4 == IF p3.done THEN p3 ELSE SlowmodeStage(p3, m)
        p5 == IF p4.done THEN p4 ELSE SpamStage(p4, m)
    IN  IF p5.done THEN p5 ELSE XpStage(p5, m)

\* lines 283-431
Pipeline(m) ==
    LET p6 == ModerationStages(m)
    IN  IF p6.done THEN p6 ELSE AiStage(p6, m)

\* write a handler's result back to the state
Commit(p, o) ==
    /\ last_message_time' = p.lmt
    /\ spam_tracker' = p.spam
    /\ xp_data' = p.xp
    /\ xp_file' = p.xpf
    /\ messages_today' = p.mt
    /\ new_members_today' = p.nm
    /\ last_stats_reset_date' = p.rd
    /\ guild_roles' = p.groles
    /\ member_roles' = p.mroles
    /\ tasks' = p.tasks
    /\ next_id' = p.nid
    /\ hist' = p.hist
    /\ out' = o

\* the slowmode stage looked at m: m came this far and the channel has a
\* cooldown
ReachedSlowmode(m, deleted) ==
    /\ ~IsBot(m.author) /\ ~m.dm
    /\ deleted \notin {"banned", "link"}
    /\ Has(slowmode_settings, m.channel)

\* history: the time of the author's last message in the channel that the
\* slowmode stage looked at and did not delete
Accepted(h, m, deleted) ==
    IF ReachedSlowmode(m, deleted) /\ deleted = "none"
    THEN [h EXCEPT !.accepted = Put(@, <<m.channel, m.author>>, now)]
    ELSE h

on_message(m) ==
    LET p == Pipeline(m)
        q == [p EXCEPT !.hist = Accepted(@, m, p.out.deleted)]
    IN  /\ Commit(q, [q.out EXCEPT !.op = "message", !.msg = m])
        /\ UNCHANGED <<now, log_channel, cfgVars, chanVars>>

\* on_message as far as line 428, seen from inside the AI stage:
\* ask_ceil_assistant (lines 140-150) calls the synchronous OpenAI client, which
\* returns when the HTTP response has arrived and never yields to the event
\* loop; until then the thread is inside the request (ai_call)
on_message_ask(m) ==
    LET p == ModerationStages(m)
        asks == ~p.done /\ config.flags.ai_enabled /\ should_ai_reply(m)
        mode_for_channel == Get(channel_modes, m.channel, config.flags.ai_default_mode)
        q == [p EXCEPT !.hist = Accepted(@, m, p.out.deleted),
                       !.out.ai = asks,
                       !.out.ai_mode = IF asks THEN mode_for_channel ELSE <<>>]
    IN  /\ Commit(q, [q.out EXCEPT !.op = "message", !.msg = m])
        /\ ai_call' = IF asks THEN [msg |-> m, mode |-> mode_for_channel] ELSE NoCall
        /\ UNCHANGED <<now, log_channel, cfgVars, chanVars, handled, posts, inflight>>

\* lines 428-431: the OpenAI request returns and the reply is posted
ask_returns(fail) ==
    /\ ai_call # NoCall
    /\ ai_call' = NoCall
    /\ out' = [Send([Ledgers EXCEPT !.out.ai = TRUE, !.out.ai_mode = ai_call.mode],
                    "ai_reply", "reply" \in fail).out
                  EXCEPT !.op = "ai_reply", !.msg = ai_call.msg]
    /\ UNCHANGED <<now, log_channel, cfgVars, chanVars, ledgerVars, muteVars, hist,
                   handled, posts, inflight>>

\* a coroutine of the event loop can be resumed: the one thread of the loop
\* is not inside a synchronous call
LoopFree == ai_call = NoCall

\* on_member_join
on_member_join(member, fail) ==
    LET d == track_new_member(messages_today, new_members_today,
                              last_stats_reset_date, now)
        p == [Ledgers EXCEPT !.mt = d.mt, !.nm = d.nm, !.rd = d.rd,
                             !.hist.seen = Observed(@, "join", now)]
    IN  /\ Commit(p, [Send(p, "welcome", "post" \in fail).out
                         EXCEPT !.op = "join", !.member = member])
        /\ UNCHANGED <<now, log_channel, cfgVars, chanVars>>

\* one run of hourly_tasks for the guild, at whatever moment the hourly
\* loop has come round; coord: the guild has a #coordination-hub channel
hourly_tasks(coord) ==
    LET hour == (now % SECONDS_PER_DAY) \div 3600
        weekday == ((now \div SECONDS_PER_DAY) + 3) % 7
        daily == coord /\ config.flags.daily_summary /\ hour = 20
        weekly == coord /\ config.flags.weekly_summary /\ weekday = 4 /\ hour = 18
    IN  /\ out' = [NoOut EXCEPT !.op = "hourly_tasks",
                                !.msgs = IF daily THEN Get(messages_today, Guild, 0) ELSE 0,
                                !.joins = IF daily THEN Get(new_members_today, Guild, 0)
                                          ELSE 0,
                                !.notices = (IF daily THEN <<"daily_summary">> ELSE <<>>)
                                            \o (IF weekly THEN <<"weekly_note">> ELSE <<>>)]
        /\ UNCHANGED <<now, log_channel, cfgVars, chanVars, ledgerVars, muteVars, hist>>

(***************************************************************************)
(* Moderation commands                                                     *)
(***************************************************************************)
\* every staff-only command starts with this refusal
Refuse(op, invoker) ==
    /\ out' = [NoOut EXCEPT !.op = op, !.invoker = invoker, !.rejected = TRUE,
                            !.notices = <<"no_permission">>]
    /\ UNCHANGED <<now, log_channel, cfgVars, chanVars, ledgerVars, muteVars, hist>>

\* mutant: the text commands do not look at the invoker's roles
MayModerate_Anyone(invoker) == TRUE

\* is_staff(ctx.author) for the text commands
MayModerate(invoker) == is_staff(invoker)

\* warn
warn(invoker, member, fail) ==
    IF ~MayModerate(invoker) THEN Refuse("warn", invoker)
    ELSE LET p1 == Send(Ledgers, "warned", "post" \in fail)
             p2 == IF p1.done THEN p1 ELSE SendLog(p1, "log_warned", fail)
         IN  /\ Commit(p2, [p2.out EXCEPT !.op = "warn", !.invoker = invoker,
                                          !.member = member])
             /\ UNCHANGED <<now, log_channel, cfgVars, chanVars>>

\* mute: lines 551-571 after the staff check
MuteBody(p, member, minutes, fail) ==
    LET id == p.nid + 1
        got == MutedRole(p.groles)
        p1 == AddRole([p EXCEPT !.nid = id, !.groles = got.groles],
                      member, got.role, id)
        p2 == Send(p1, "muted", "post" \in fail)
        p3 == IF p2.done THEN p2 ELSE SendLog(p2, "log_muted", fail)
    IN  IF p3.done THEN p3 ELSE CreateTask(p3, member, got.role, id, minutes * 60)

mute(invoker, member, minutes, fail) ==
    IF ~MayModerate(invoker) THEN Refuse("mute", invoker)
    ELSE LET p == MuteBody(Ledgers, member, minutes, fail)
         IN  /\ Commit(p, [p.out EXCEPT !.op = "mute", !.invoker = invoker,
                                        !.member = member])
             /\ UNCHANGED <<now, log_channel, cfgVars, chanVars>>

\* mute as far as its first suspension point: the staff check and the
\* look-up of line 551.  When the guild has no Muted role the handler is
\* suspended in `await guild.create_role(...)` (line 553) and other handlers
\* run; when it has one, the rest of the handler follows
mute_begin(invoker, member, minutes, fail) ==
    IF MayModerate(invoker) /\ guild_roles = <<>>
    THEN /\ inflight' = inflight \cup {[id |-> next_id + 1, member |-> member,
                                         minutes |-> minutes]}
         /\ next_id' = next_id + 1
         /\ out' = [NoOut EXCEPT !.op = "mute_begin", !.invoker = invoker,
                                 !.member = member]
         /\ UNCHANGED <<now, log_channel, cfgVars, chanVars, ledgerVars, guild_roles,
                        member_roles, tasks, hist>>
    ELSE mute(invoker, member, minutes, fail) /\ UNCHANGED inflight

\* create_role has returned to the suspended handler h: the guild has one
\* more role named Muted, and the handler goes on with the role it created
\* (lines 554-571)
mute_created(h, fail) ==
    /\ h \in inflight
    /\ inflight' = inflight \ {h}
    /\ LET role == Len(guild_roles) + 1
           p1 == AddRole([Ledgers EXCEPT !.groles = Append(@, role)],
                         h.member, role, h.id)
           p2 == Send(p1, "muted", "post" \in fail)
           p3 == IF p2.done THEN p2 ELSE SendLog(p2, "log_muted", fail)
           p == IF p3.done THEN p3
                ELSE CreateTask(p3, h.member, role, h.id, h.minutes * 60)
       IN  Commit(p, [p.out EXCEPT !.op = "mute", !.invoker = "mod",
                                   !.member = h.member])
    /\ UNCHANGED <<now, log_channel, cfgVars, chanVars>>

\* a Muted role leaves the member: history of who muted it
RoleGone(p, member, explicit) ==
    LET clean == p.mroles[member] = {}
        mine == {t.id : t \in {u \in p.tasks : u.actor = member}}
    IN  [p EXCEPT !.out.removed = TRUE,
                  !.hist.owner[member] = IF clean THEN {} ELSE @,
                  !.hist.unmuted[member] = IF explicit THEN TRUE ELSE @,
                  !.hist.cleared = IF explicit /\ clean THEN @ \cup mine ELSE @]

\* unmute: lines 579-584 after the staff check
UnmuteBody(p, member, fail) ==
    IF p.groles # <<>> /\ Head(p.groles) \in p.mroles[member]
    THEN Send(RoleGone([p EXCEPT !.mroles[member] = @ \ {Head(p.groles)}],
                       member, TRUE),
              "unmuted", "post" \in fail)
    ELSE Send(p, "not_muted", "post" \in fail)

unmute(invoker, member, fail) ==
    IF ~MayModerate(invoker) THEN Refuse("unmute", invoker)
    ELSE LET p == UnmuteBody(Ledgers, member, fail)
         IN  /\ Commit(p, [p.out EXCEPT !.op = "unmute", !.invoker = invoker,
                                        !.member = member])
             /\ UNCHANGED <<now, log_channel, cfgVars, chanVars>>

\* mutant: the reversal does not look whether the member still carries the role
UnmuteLaterBody_Unchecked(p, t, fail) ==
    LET p1 == RoleGone([p EXCEPT !.mroles[t.actor] = @ \ {t.role}], t.actor, FALSE)
    IN  IF t.log THEN Send(p1, "log_unmuted", "log" \in fail) ELSE p1

\* the body of unmute_later once its sleep has returned
UnmuteLaterBody(p, t, fail) ==
    IF t.role \in p.mroles[t.actor]
    THEN LET p1 == RoleGone([p EXCEPT !.mroles[t.actor] = @ \ {t.role}],
                            t.actor, FALSE)
         IN  IF t.log THEN Send(p1, "log_unmuted", "log" \in fail) ELSE p1
    ELSE p

\* unmute_later: asyncio.sleep returns no earlier than the delay asked for
unmute_later(t, fail) ==
    /\ t \in tasks
    /\ now >= t.at
    /\ LET p0 == [Ledgers EXCEPT !.tasks = @ \ {t}, !.hist.cleared = @ \ {t.id}]
           p == UnmuteLaterBody(p0, t, fail)
       IN  Commit(p, [p.out EXCEPT !.op = "unmute_later", !.member = t.actor,
                                   !.task = t.id])
    /\ UNCHANGED <<now, log_channel, cfgVars, chanVars>>

\* purge
purge(invoker, amount, fail) ==
    IF ~MayModerate(invoker) THEN Refuse("purge", invoker)
    ELSE /\ out' = IF amount <= 0
                   THEN [NoOut EXCEPT !.op = "purge", !.invoker = invoker,
                                      !.rejected = TRUE, !.notices = <<"bad_amount">>]
                   ELSE [SendLog([Ledgers EXCEPT !.out.purged = amount + 1],
                                 "log_purged", fail).out
                            EXCEPT !.op = "purge", !.invoker = invoker]
         /\ UNCHANGED <<now, log_channel, cfgVars, chanVars, ledgerVars, muteVars, hist>>

\* slowmode: setting is "off", a decimal integer, or anything else
slowmode(invoker, channel, setting, fail) ==
    IF ~MayModerate(invoker) THEN Refuse("slowmode", invoker)
    ELSE /\ IF setting.kind = "off"
            THEN /\ slowmode_settings' = Pop(slowmode_settings, channel)
                 /\ out' = [Send(Ledgers, "slowmode_off", "post" \in fail).out
                               EXCEPT !.op = "slowmode", !.invoker = invoker]
            ELSE IF setting.kind = "int" /\ setting.n >= 0
            THEN /\ slowmode_settings' = Put(slowmode_settings, channel, setting.n)
                 /\ out' = [Send(Ledgers, "slowmode_set", "post" \in fail).out
                               EXCEPT !.op = "slowmode", !.invoker = invoker]
            ELSE /\ slowmode_settings' = slowmode_settings
                 /\ out' = [NoOut EXCEPT !.op = "slowmode", !.invoker = invoker,
                                         !.rejected = TRUE,
                                         !.notices = <<"bad_seconds">>]
         /\ UNCHANGED <<now, log_channel, cfgVars, channel_modes, ledgerVars,
                        muteVars, hist>>

\* mode: any member may call it, there is no staff check.  mode_name is a
\* required keyword-only parameter: when nothing but white space follows the
\* command name the call ends in MissingRequiredArgument before the body
\* runs, and no handler of command errors is registered
mode(invoker, channel, mode_name, fail) ==
    LET name == Lower(Strip(mode_name))
        is_topic == StartsWith(name, <<"t","o","p","i","c"," ">>)
        topic == IF is_topic THEN Strip(SubSeq(name, 7, Len(name))) ELSE <<>>
        bad == IF is_topic THEN topic = <<>> ELSE name \notin AI_MODES
        mode_key == IF is_topic THEN <<"t","o","p","i","c",":">> \o topic ELSE name
    IN  /\ IF Strip(mode_name) = <<>>
           THEN /\ channel_modes' = channel_modes
                /\ out' = [NoOut EXCEPT !.op = "mode", !.invoker = invoker,
                                        !.arg = mode_name, !.raised = TRUE]
           ELSE IF bad
           THEN /\ channel_modes' = channel_modes
                /\ out' = [NoOut EXCEPT !.op = "mode", !.invoker = invoker,
                                        !.arg = mode_name,
                                        !.rejected = TRUE, !.notices = <<"bad_mode">>]
           ELSE /\ channel_modes' = Put(channel_modes, channel, mode_key)
                /\ out' = [Send(Ledgers, "mode_set", "post" \in fail).out
                              EXCEPT !.op = "mode", !.invoker = invoker,
                                     !.arg = mode_name]
        /\ UNCHANGED <<now, log_channel, cfgVars, slowmode_settings, ledgerVars,
                       muteVars, hist>>

(***************************************************************************)
(* Slash admin panel                                                       *)
(***************************************************************************)
\* isinstance(user, discord.Member) and is_staff(user)
MayAdmin(user, in_guild) == in_guild /\ is_staff(user)

Unauthorized(op, user) ==
    /\ out' = [NoOut EXCEPT !.op = op, !.invoker = user, !.rejected = TRUE,
                            !.notices = <<"not_authorized">>]
    /\ UNCHANGED <<now, log_channel, cfgVars, chanVars, ledgerVars, muteVars, hist>>

\* an admin command that ends with a reply and changed (or not) the config
AdminDone(op, user, notice, rejected) ==
    /\ out' = [NoOut EXCEPT !.op = op, !.invoker = user, !.rejected = rejected,
                            !.notices = <<notice>>]
    /\ UNCHANGED <<now, log_channel, chanVars, ledgerVars, muteVars, hist>>

\* /admin toggle
admin_toggle(user, in_guild, feature, state) ==
    IF ~MayAdmin(user, in_guild) THEN Unauthorized("admin_toggle", user)
    ELSE IF feature \notin DOMAIN FEATURE_KEYS
    THEN AdminDone("admin_toggle", user, "unknown_feature", TRUE) /\ UNCHANGED cfgVars
    ELSE LET cfg == [config EXCEPT !.flags[FEATURE_KEYS[feature]] = state]
         IN  /\ config' = cfg
             /\ config_file' = save_config(cfg, default_banned)
             /\ default_banned' = default_banned
             /\ AdminDone("admin_toggle", user, "toggled", FALSE)

\* /admin mode
admin_mode(user, in_guild, mode_name) ==
    IF ~MayAdmin(user, in_guild) THEN Unauthorized("admin_mode", user)
    ELSE IF Lower(mode_name) \notin {m_ceil, m_education, m_admin, m_general, m_fun}
    THEN AdminDone("admin_mode", user, "bad_mode", TRUE) /\ UNCHANGED cfgVars
    ELSE LET cfg == [config EXCEPT !.flags.ai_default_mode = Lower(mode_name)]
         IN  /\ config' = cfg
             /\ config_file' = save_config(cfg, default_banned)
             /\ default_banned' = default_banned
             /\ AdminDone("admin_mode", user, "default_mode_set", FALSE)

\* the list config["banned_words"] changed in place to `list`, then
\* save_config() and load_config()
BannedChanged(list) ==
    LET dflt == IF config.shared THEN list ELSE default_banned
        cfg == IF config.shared THEN config ELSE [config EXCEPT !.banned = list]
        file == save_config(cfg, dflt)
    IN  /\ default_banned' = dflt
        /\ config_file' = file
        /\ config' = load_config(file)

\* /admin bannedwords
admin_bannedwords(user, in_guild, action, raw_word) ==
    IF ~MayAdmin(user, in_guild) THEN Unauthorized("admin_bannedwords", user)
    ELSE LET word == Strip(Lower(raw_word))
             banned == BannedOf(config, default_banned)
         IN  IF action = "add" /\ ~InList(word, banned)
             THEN /\ BannedChanged(Append1(banned, word))
                  /\ AdminDone("admin_bannedwords", user, "word_added", FALSE)
             ELSE IF action = "remove" /\ InList(word, banned)
             THEN /\ BannedChanged(Remove1(banned, word))
                  /\ AdminDone("admin_bannedwords", user, "word_removed", FALSE)
             ELSE /\ AdminDone("admin_bannedwords", user, "nothing_done", TRUE)
                  /\ UNCHANGED cfgVars

\* /admin reload
admin_reload(user, in_guild) ==
    IF ~MayAdmin(user, in_guild) THEN Unauthorized("admin_reload", user)
    ELSE IF config_file.kind = "other"
    THEN \* json.load returned a value that is no dict and line 58 has bound
         \* config to it: config.setdefault (line 65) raises AttributeError,
         \* BANNED_WORDS keeps the list it had, the deferred reply never comes
         /\ config' = [config EXCEPT !.flags = EmptyDict]
         /\ UNCHANGED <<default_banned, config_file>>
         /\ out' = [NoOut EXCEPT !.op = "admin_reload", !.invoker = user,
                                 !.raised = TRUE]
         /\ UNCHANGED <<now, log_channel, chanVars, ledgerVars, muteVars, hist>>
    ELSE /\ config' = load_config(config_file)
         /\ UNCHANGED <<default_banned, config_file>>
         /\ AdminDone("admin_reload", user, "reloaded", FALSE)

(***************************************************************************)
(* Environment                                                             *)
(***************************************************************************)
\* the clock advances
Tick(d) ==
    /\ now' = now + d
    /\ out' = [NoOut EXCEPT !.op = "tick"]
    /\ UNCHANGED <<log_channel, cfgVars, chanVars, ledgerVars, muteVars, hist>>

\* the operator edits, removes or damages config.json
EditFile(file) ==
    /\ config_file' = file
    /\ out' = [NoOut EXCEPT !.op = "edit"]
    /\ UNCHANGED <<now, log_channel, config, default_banned, chanVars, ledgerVars,
                   muteVars, hist>>

(***************************************************************************)
(* Initial states: the process has started, load_config() and load_xp()    *)
(* have run                                                                *)
(***************************************************************************)
\* two seconds before midnight UTC
StartTime == 20000 * SECONDS_PER_DAY - 2

NoHist ==
    [owner |-> [a \in Actors |-> {}],
     latest |-> [a \in Actors |-> [id |-> 0, at |-> 0]],
     unmuted |-> [a \in Actors |-> FALSE],
     cleared |-> {},
     accepted |-> EmptyDict,
     seen |-> [day |-> 0, msgs |-> 0, joins |-> 0],
     spam_at |-> EmptyDict]

InitWith(files, logs, roles, xps) ==
    /\ now = StartTime
    /\ log_channel \in logs
    /\ config_file \in files
    /\ config = load_config(config_file)
    /\ default_banned = DEFAULT_BANNED_INIT
    /\ channel_modes = EmptyDict
    /\ slowmode_settings = EmptyDict
    /\ last_message_time = EmptyDict
    /\ spam_tracker = EmptyDict
    /\ xp_file \in xps
    /\ xp_data = xp_file
    /\ messages_today = EmptyDict
    /\ new_members_today = EmptyDict
    /\ last_stats_reset_date = EmptyDict
    /\ guild_roles \in roles
    /\ member_roles = [a \in Actors |-> {}]
    /\ tasks = {}
    /\ next_id = 0
    /\ hist = NoHist
    /\ out = NoOut
    /\ handled = 0
    /\ ai_call = NoCall
    /\ posts = EmptyDict
    /\ inflight = {}

(***************************************************************************)
(* Inputs                                                                  *)
(***************************************************************************)
c_hi == <<"h","i">>
c_hello == <<"h","e","l","l","o">>
c_padded == <<" ","o","k"," "," ">>
c_banned == <<"o","h"," ","S","H","I","T">>
c_link == <<"s","e","e"," ","X",".","C","o","m">>
c_banned_link == <<"s","h","i","t",".","c","o","m">>
c_shirt == <<"n","o"," ","s","h","i","r","t"," ","n","o"," ","s","h","o","e","s">>

Msg(author, channel, content, fail) ==
    [author |-> author, channel |-> channel, content |-> content,
     mentioned |-> FALSE, dm |-> FALSE, fail |-> fail]

\* the window of the author of m
WindowOf(m) == Get(spam_tracker, <<Guild, m.author>>, <<>>)

(***************************************************************************)
(* SpecMute: manual mutes, spam mutes, explicit unmutes and the deferred   *)
(* reversals, over half an hour                                            *)
(***************************************************************************)
MaxMutes == 3

MuteMinutes == {1, 30}

InitMute == InitWith({AbsentFile}, {TRUE}, {<<>>, <<1>>}, {EmptyDict})

\* the clock advances to the next moment at which a sleeping task is due
TickToNextTask ==
    \E t \in tasks :
        /\ t.at > now
        /\ \A u \in tasks : u.at > now => u.at >= t.at
        /\ Tick(t.at - now)

NextMute ==
    \/ /\ Len(WindowOf(Msg("alice", "general", c_hi, {}))) < SPAM_MAX_MESSAGES
       /\ next_id < MaxMutes
       /\ on_message(Msg("alice", "general", c_hi, {}))
       /\ UNCHANGED <<handled, ai_call, posts, inflight>>
    \/ \E minutes \in MuteMinutes :
           /\ next_id < MaxMutes
           /\ mute("mod", "alice", minutes, {})
           /\ UNCHANGED <<handled, ai_call, posts, inflight>>
    \/ unmute("mod", "alice", {}) /\ UNCHANGED <<handled, ai_call, posts, inflight>>
    \/ \E t \in tasks : unmute_later(t, {}) /\ UNCHANGED <<handled, ai_call, posts, inflight>>
    \/ TickToNextTask /\ UNCHANGED <<handled, ai_call, posts, inflight>>

SpecMute == InitMute /\ [][NextMute]_vars

(***************************************************************************)
(* SpecSpam: a burst of messages by one speaker, a member or a moderator,  *)
(* within a few seconds, while the other speaker says little; every notice *)
(* is delivered.  SpecDelivery: the same bursts, with notices that fail.   *)
(***************************************************************************)
MaxWindow == 8
MaxBystander == 1
SpamHorizon == 10

SpamTicks == {4, 5}

SpamMsgs == {Msg("alice", "general", c_hello, {}), Msg("mod", "general", c_hi, {}),
             Msg("alice", "ceil-assistant", c_hello, {})}

FailingMsgs == {Msg("alice", "general", c_hello, {"log"}),
                Msg("alice", "general", c_hello, {"post"})}

InitSpam == InitWith({AbsentFile}, {TRUE}, {<<>>}, {EmptyDict})

Burst(msgs) ==
    \E m \in msgs :
        /\ Len(FilterWindow(WindowOf(m), now)) < MaxWindow
        /\ \A k \in DOMAIN spam_tracker \ {<<Guild, m.author>>} :
               Len(spam_tracker[k]) <= MaxBystander
        /\ on_message(m)
        /\ posts' = IF out'.window > 0
                    THEN Put(posts, <<Guild, m.author>>,
                             FirstPosts(Get(posts, <<Guild, m.author>>, <<>>), now))
                    ELSE posts
        /\ UNCHANGED <<handled, ai_call, inflight>>

SpamTick ==
    \E d \in SpamTicks :
        now + d <= StartTime + SpamHorizon /\ Tick(d) /\ UNCHANGED <<handled, ai_call, posts, inflight>>

NextSpam == Burst(SpamMsgs) \/ SpamTick

SpecSpam == InitSpam /\ [][NextSpam]_vars

NextDelivery == Burst(SpamMsgs \cup FailingMsgs) \/ SpamTick

SpecDelivery == InitSpam /\ [][NextDelivery]_vars

(***************************************************************************)
(* Claims about the mute ledger (SpecMute)                                 *)
(***************************************************************************)
\* the program state a deferred reversal could touch, its own task aside
ReversalFrame ==
    <<cfgVars, chanVars, ledgerVars, guild_roles, member_roles, next_id>>

\* C2: when an explicit unmute has removed the member's mute after a mute
\* was applied and no mute has been applied since, the firing of that mute's
\* deferred reversal changes no state and delivers no notice.
C2_ReversalAfterUnmuteIsNoOp ==
    [][\A t \in tasks :
          (/\ t.id \in hist.cleared
           /\ out'.op = "unmute_later" /\ out'.task = t.id)
          => (/\ UNCHANGED ReversalFrame
              /\ ~out'.removed
              /\ out'.notices = <<>>
              /\ ~out'.raised)]_vars

\* C2 witness: the reversal of the member's latest mute request has fired
\* after an explicit unmute took the mute away, and removed nothing
C2_Witness ==
    /\ out.op = "unmute_later"
    /\ hist.latest[out.member].id = out.task
    /\ hist.unmuted[out.member]
    /\ ~out.removed

\* C3: a deferred reversal removes the member's mute only if the mute the
\* member carries when it fires was applied by the request that scheduled it.
C3_ReversalRemovesOnlyItsOwnMute ==
    [][\A t \in tasks :
          (out'.op = "unmute_later" /\ out'.task = t.id /\ out'.removed)
          => t.id \in hist.owner[t.actor]]_vars

\* C4: absent an explicit unmute since the most recent mute request, the
\* member stays muted until that request's delay has elapsed.
C4_LatestRequestGovernsExpiry ==
    \A a \in Actors :
        (/\ hist.latest[a].id # 0
         /\ ~hist.unmuted[a]
         /\ now < hist.latest[a].at)
        => member_roles[a] # {}

(***************************************************************************)
(* Claims about the spam stage (SpecSpam, SpecDelivery)                    *)
(***************************************************************************)
\* C1: the spam stage applies an auto-mute exactly on the message at which
\* the author's pruned window first reaches SPAM_MAX_MESSAGES (what is left
\* of the earlier messages in the window was below the threshold), not on a
\* following message while the window stays at or above it, and never for
\* staff.
C1_AutoMuteOnlyOnFirstReach ==
    [][(out'.op = "message" /\ out'.window > 0)
       => LET key == <<Guild, out'.msg.author>>
              before == FilterWindow(Get(spam_tracker, key, <<>>), now)
          IN  out'.automuted <=>
                  (/\ ~is_staff(out'.msg.author)
                   /\ Len(spam_tracker'[key]) >= SPAM_MAX_MESSAGES
                   /\ Len(before) < SPAM_MAX_MESSAGES)]_vars

\* C6: after every run of the spam stage for an author no stored timestamp
\* is older than SPAM_WINDOW_SECONDS at the time of that run, and the size
\* the stage compared with the threshold is the size of the pruned window.
C6_WindowHoldsNoStaleEntry ==
    /\ \A key \in DOMAIN spam_tracker :
           \A i \in 1..Len(spam_tracker[key]) :
               hist.spam_at[key] - spam_tracker[key][i] <= SPAM_WINDOW_SECONDS
    /\ (out.op = "message" /\ out.window > 0)
       => (/\ hist.spam_at[<<Guild, out.msg.author>>] = now
           /\ out.window = Len(spam_tracker[<<Guild, out.msg.author>>])
           /\ (out.automuted => out.window >= SPAM_MAX_MESSAGES))

\* C6 witness: a window that had reached the threshold has been pruned down
\* to the message just handled
C6_Witness ==
    /\ out.op = "message"
    /\ out.window = 1
    /\ next_id >= 1
    /\ Len(spam_tracker[<<Guild, out.msg.author>>]) = 1

\* C16: with a window of 8 seconds and a threshold of 7, a member who is
\* not staff is not auto-muted on any of the first six messages that reach
\* the spam stage; on the seventh the member is auto-muted when the seven
\* came within 5 seconds, and not when the first and the seventh are 10
\* seconds apart (in general: exactly when they are at most 8 seconds apart).
C16_SevenInFiveSecondsNotInTen ==
    [][(out'.op = "message" /\ out'.window > 0 /\ ~is_staff(out'.msg.author))
       => LET key == <<Guild, out'.msg.author>>
              first7 == posts'[key]
              seventh == Len(Get(posts, key, <<>>)) = SPAM_MAX_MESSAGES - 1
          IN  /\ Len(Get(posts, key, <<>>)) < SPAM_MAX_MESSAGES - 1 => ~out'.automuted
              /\ seventh /\ first7[7] - first7[1] <= 5 => out'.automuted
              /\ seventh /\ first7[7] - first7[1] >= 10 => ~out'.automuted
              /\ seventh => (out'.automuted <=> first7[7] - first7[1] <= SPAM_WINDOW_SECONDS)]_vars

\* C16 witness: the seventh message of a member came 5 seconds after the
\* first and brought the mute
C16_Witness ==
    /\ out.op = "message"
    /\ out.automuted
    /\ out.scheduled = 1
    /\ LET first7 == posts[<<Guild, out.msg.author>>]
       IN  Len(first7) = 7 /\ first7[7] = now /\ first7[7] - first7[1] = 5

\* C17: the spam stage never ends the pipeline: the message that brings an
\* auto-mute is not deleted, earns experience and is counted like any other
\* message, and is handed to the AI collaborator exactly when a message that
\* brought no mute would be.
C17_AutoMuteDoesNotEndThePipeline ==
    [][(out'.op = "message" /\ out'.automuted)
       => LET m == out'.msg
              earns == config.flags.xp_enabled /\ Len(Strip(m.content)) > 2
          IN  /\ out'.deleted = "none"
              /\ xp_data' = IF earns THEN add_xp(xp_data, m.author, XP_PER_MESSAGE)
                            ELSE xp_data
              /\ out'.amount = IF earns THEN XP_PER_MESSAGE ELSE 0
              /\ out'.ai = (config.flags.ai_enabled /\ should_ai_reply(m))]_vars

\* C10: whatever notice fails to be delivered while a message is handled,
\* the handler leaves the ledgers, the Muted roles and the scheduled
\* reversals as the run in which every delivery succeeds leaves them.
C10_DeliveryFailureIsSwallowed ==
    [][out'.op = "message"
       => LET q == Pipeline([out'.msg EXCEPT !.fail = {}])
          IN  /\ last_message_time' = q.lmt
              /\ spam_tracker' = q.spam
              /\ xp_data' = q.xp
              /\ messages_today' = q.mt
              /\ member_roles' = q.mroles
              /\ tasks' = q.tasks]_vars

(***************************************************************************)
(* SpecSlow: a moderator sets, changes and clears the cooldown of #general *)
(* while a member and the moderator talk, a few seconds apart              *)
(***************************************************************************)
MaxSlowMsgs == 3
SlowHorizon == 10

SlowTicks == {4, 5}

SlowSettings ==
    {[kind |-> "off", n |-> 0], [kind |-> "int", n |-> 5], [kind |-> "int", n |-> 0],
     [kind |-> "int", n |-> -1], [kind |-> "text", n |-> 0]}

SlowMsgs ==
    {Msg("alice", "general", c_hi, {}), Msg("alice", "general", c_hi, {"dm"}),
     Msg("alice", "ceil-assistant", c_hi, {}), Msg("mod", "general", c_hi, {}),
     Msg("alice", "general", c_link, {})}

InitSlow == InitWith({AbsentFile}, {TRUE}, {<<>>}, {EmptyDict})

NextSlow ==
    \/ \E m \in SlowMsgs :
           /\ handled < MaxSlowMsgs
           /\ on_message(m)
           /\ handled' = handled + 1
           /\ UNCHANGED <<ai_call, posts, inflight>>
    \/ \E invoker \in Humans, setting \in SlowSettings :
           slowmode(invoker, "general", setting, {}) /\ UNCHANGED <<handled, ai_call, posts, inflight>>
    \/ \E d \in SlowTicks :
           now + d <= StartTime + SlowHorizon /\ Tick(d) /\ UNCHANGED <<handled, ai_call, posts, inflight>>

SpecSlow == InitSlow /\ [][NextSlow]_vars

(***************************************************************************)
(* Claims about slowmode (SpecSlow)                                        *)
(***************************************************************************)
\* C5: a message that reaches the slowmode stage of a channel with a
\* cooldown is deleted if and only if its author is not staff and the time
\* since the author's last accepted message in the channel (the epoch, if
\* there is none) is strictly less than the cooldown; a rejected message
\* leaves the last-spoken time alone, an accepted one sets it to now, and
\* the last-spoken times are the times of the last accepted messages.
C5_SlowmodeRejectsIffTooSoon ==
    [][/\ last_message_time' = hist.accepted'
       /\ (out'.op = "message" /\ ReachedSlowmode(out'.msg, out'.deleted))
          => LET m == out'.msg
                 key == <<m.channel, m.author>>
                 cooldown == slowmode_settings[m.channel]
                 too_soon == now - Get(hist.accepted, key, 0) < cooldown
                 rejected == out'.deleted = "slowmode"
             IN  /\ rejected <=> (too_soon /\ ~is_staff(m.author))
                 /\ last_message_time' =
                        IF rejected THEN last_message_time
                        ELSE Put(last_message_time, key, now)]_vars

\* C5 witness: a member's message was rejected some seconds after the
\* member's last accepted message in the channel
C5_Witness ==
    LET key == <<out.msg.channel, out.msg.author>>
    IN  /\ out.op = "message"
        /\ out.deleted = "slowmode"
        /\ Has(hist.accepted, key)
        /\ now - hist.accepted[key] > 0

(***************************************************************************)
(* SpecPipe: a few messages of every kind (clean, banned word, link, from  *)
(* a member, a moderator, another bot, the bot itself, in a private chat)  *)
(* while a moderator switches features off and on and sets a cooldown      *)
(***************************************************************************)
MaxPipeMsgs == 2
PipeHorizon == 4

PipeTicks == {4}

PipeFeatures == {"moderation", "links", "ai"}

\* xp_data.json of an earlier run: alice is one message short of level 2
AlmostLevel2 == Put(EmptyDict, "alice", [xp |-> 90, level |-> 1])

PipeMsgs ==
    {Msg("alice", "general", c_hello, {}),
     Msg("alice", "general", c_banned, {}),
     Msg("alice", "general", c_banned, {"log"}),
     Msg("alice", "general", c_link, {}),
     Msg("alice", "general", c_banned_link, {}),
     Msg("alice", "ceil-assistant", c_hello, {}),
     [Msg("alice", "general", c_padded, {}) EXCEPT !.mentioned = TRUE],
     [Msg("alice", "", c_banned, {}) EXCEPT !.dm = TRUE],
     Msg("mod", "general", c_link, {}),
     Msg("mod", "general", c_banned, {}),
     Msg("otherbot", "general", c_banned, {}),
     Msg("otherbot", "general", c_link, {}),
     Msg("otherbot", "ceil-assistant", c_hello, {}),
     Msg(SelfBot, "ceil-assistant", c_banned, {})}

InitPipe == InitWith({AbsentFile}, {TRUE}, {<<>>}, {AlmostLevel2})

NextPipe ==
    \/ \E m \in PipeMsgs :
           /\ handled < MaxPipeMsgs
           /\ on_message(m)
           /\ handled' = handled + 1
           /\ UNCHANGED <<ai_call, posts, inflight>>
    \/ \E feature \in PipeFeatures, state \in BOOLEAN :
           admin_toggle("mod", TRUE, feature, state) /\ UNCHANGED <<handled, ai_call, posts, inflight>>
    \/ slowmode("mod", "general", [kind |-> "int", n |-> 5], {}) /\ UNCHANGED <<handled, ai_call, posts, inflight>>
    \/ \E d \in PipeTicks :
           now + d <= StartTime + PipeHorizon /\ Tick(d) /\ UNCHANGED <<handled, ai_call, posts, inflight>>

SpecPipe == InitPipe /\ [][NextPipe]_vars

(***************************************************************************)
(* Claims about the order of the stages (SpecPipe)                         *)
(***************************************************************************)
\* the place of a notice in the order of the stages
StageOf(notice) ==
    CASE notice = "log_banned" -> 1
      [] notice = "log_link" -> 2
      [] notice = "dm_slowmode" -> 3
      [] notice = "log_automute" -> 4
      [] notice = "levelup" -> 5
      [] notice = "ai_reply" -> 6

C8_BotMessagesHaveNoEffect ==
    [][(out'.op = "message" /\ IsBot(out'.msg.author))
       => /\ out'.deleted = "none"
          /\ out'.notices = <<>>
          /\ ~out'.ai
          /\ UNCHANGED <<ledgerVars, muteVars>>]_vars

(***************************************************************************)
(* SpecAdmin: a member and a moderator use every moderation command and    *)
(* every command of the admin panel, with good and bad arguments, from the *)
(* guild and from a private chat                                           *)
(***************************************************************************)
MaxAdminMutes == 1

n_fun == <<" ","F","u","n">>
n_bogus == <<"x","y","z">>
n_spam == <<" ","S","p","a","m">>

AdminSettings == {[kind |-> "off", n |-> 0], [kind |-> "int", n |-> 5],
                  [kind |-> "text", n |-> 0]}

InitAdmin == InitWith({AbsentFile}, {TRUE}, {<<>>}, {EmptyDict})

\* who uses the admin panel, and whether from the guild: a member, the
\* moderator, and the moderator from a private chat
AdminUsers == {<<"alice", TRUE>>, <<"mod", TRUE>>, <<"mod", FALSE>>}

NextAdmin ==
    \/ \E invoker \in Humans : warn(invoker, "alice", {}) /\ UNCHANGED <<handled, ai_call, posts, inflight>>
    \/ \E invoker \in Humans :
           /\ next_id < MaxAdminMutes
           /\ mute(invoker, "alice", 30, {})
           /\ UNCHANGED <<handled, ai_call, posts, inflight>>
    \/ \E invoker \in Humans : unmute(invoker, "alice", {}) /\ UNCHANGED <<handled, ai_call, posts, inflight>>
    \/ \E invoker \in Humans, amount \in {0, 2} :
           purge(invoker, amount, {}) /\ UNCHANGED <<handled, ai_call, posts, inflight>>
    \/ \E invoker \in Humans, setting \in AdminSettings :
           slowmode(invoker, "general", setting, {}) /\ UNCHANGED <<handled, ai_call, posts, inflight>>
    \/ \E invoker \in Humans, mode_name \in {n_fun, n_bogus} :
           mode(invoker, "general", mode_name, {}) /\ UNCHANGED <<handled, ai_call, posts, inflight>>
    \/ \E u \in AdminUsers, feature \in {"links", "bogus"}, state \in BOOLEAN :
           admin_toggle(u[1], u[2], feature, state) /\ UNCHANGED <<handled, ai_call, posts, inflight>>
    \/ \E u \in AdminUsers, mode_name \in {n_fun, n_bogus} :
           admin_mode(u[1], u[2], Strip(mode_name)) /\ UNCHANGED <<handled, ai_call, posts, inflight>>
    \/ \E u \in AdminUsers, action \in {"add", "remove", "list"} :
           admin_bannedwords(u[1], u[2], action, n_spam) /\ UNCHANGED <<handled, ai_call, posts, inflight>>
    \/ \E u \in AdminUsers : admin_reload(u[1], u[2]) /\ UNCHANGED <<handled, ai_call, posts, inflight>>

SpecAdmin == InitAdmin /\ [][NextAdmin]_vars

(***************************************************************************)
(* Spec: every handler, with the inputs of the specifications above        *)
(***************************************************************************)
MaxMsgs == 8
Horizon == 1800

OkFile == [kind |-> "ok", flags |-> [DEFAULT_FLAGS EXCEPT !.link_blocking = FALSE],
           banned |-> <<w_spam>>]

Fails == {{}, {"log"}, {"post"}}

Init == InitWith({AbsentFile, CorruptFile, OkFile}, BOOLEAN, {<<>>, <<1>>},
                 {EmptyDict, AlmostLevel2})

Next ==
    \/ \E m \in PipeMsgs \cup SlowMsgs \cup SpamMsgs \cup FailingMsgs :
           /\ handled < MaxMsgs
           /\ on_message(m)
           /\ handled' = handled + 1
           /\ UNCHANGED <<ai_call, posts, inflight>>
    \/ \E fail \in Fails : on_member_join("alice", fail) /\ UNCHANGED <<handled, ai_call, posts, inflight>>
    \/ \E invoker \in Humans, fail \in Fails :
           warn(invoker, "alice", fail) /\ UNCHANGED <<handled, ai_call, posts, inflight>>
    \/ \E invoker \in Humans, minutes \in MuteMinutes, fail \in Fails :
           /\ next_id < MaxMutes
           /\ mute(invoker, "alice", minutes, fail)
           /\ UNCHANGED <<handled, ai_call, posts, inflight>>
    \/ \E invoker \in Humans, fail \in Fails :
           unmute(invoker, "alice", fail) /\ UNCHANGED <<handled, ai_call, posts, inflight>>
    \/ \E t \in tasks, fail \in Fails : unmute_later(t, fail) /\ UNCHANGED <<handled, ai_call, posts, inflight>>
    \/ \E invoker \in Humans, amount \in {0, 2}, fail \in Fails :
           purge(invoker, amount, fail) /\ UNCHANGED <<handled, ai_call, posts, inflight>>
    \/ \E invoker \in Humans, channel \in Channels, setting \in SlowSettings,
          fail \in Fails :
           slowmode(invoker, channel, setting, fail) /\ UNCHANGED <<handled, ai_call, posts, inflight>>
    \/ \E invoker \in Humans, channel \in Channels,
          mode_name \in {n_fun, n_bogus}, fail \in Fails :
           mode(invoker, channel, mode_name, fail) /\ UNCHANGED <<handled, ai_call, posts, inflight>>
    \/ \E u \in AdminUsers, feature \in DOMAIN FEATURE_KEYS \cup {"bogus"},
          state \in BOOLEAN :
           admin_toggle(u[1], u[2], feature, state) /\ UNCHANGED <<handled, ai_call, posts, inflight>>
    \/ \E u \in AdminUsers, mode_name \in {n_fun, n_bogus} :
           admin_mode(u[1], u[2], Strip(mode_name)) /\ UNCHANGED <<handled, ai_call, posts, inflight>>
    \/ \E u \in AdminUsers, action \in {"add", "remove", "list"},
          word \in {n_spam, w_shit} :
           admin_bannedwords(u[1], u[2], action, word) /\ UNCHANGED <<handled, ai_call, posts, inflight>>
    \/ \E u \in AdminUsers : admin_reload(u[1], u[2]) /\ UNCHANGED <<handled, ai_call, posts, inflight>>
    \/ \E file \in {AbsentFile, CorruptFile, OkFile} :
           EditFile(file) /\ UNCHANGED <<handled, ai_call, posts, inflight>>
    \/ \E d \in {1, 4, 60} :
           now + d <= StartTime + Horizon /\ Tick(d) /\ UNCHANGED <<handled, ai_call, posts, inflight>>

Spec == Init /\ [][Next]_vars

(***************************************************************************)
(* Claims about permissions (SpecAdmin)                                    *)
(***************************************************************************)
\* the operations the code keeps for staff
StaffOnlyOps ==
    {"warn", "mute", "unmute", "purge", "slowmode",
     "admin_toggle", "admin_mode", "admin_bannedwords", "admin_reload"}

\* the invoker was refused and no state changed
RefusedWithoutEffect ==
    /\ out'.rejected
    /\ UNCHANGED <<cfgVars, chanVars, ledgerVars, muteVars>>

\* C9 as stated: every moderation or admin operation, setting a channel's
\* AI mode included, is refused to an invoker who is not staff and changes
\* no state.
C9_EveryOperationIsStaffOnly ==
    [][(out'.op \in StaffOnlyOps \cup {"mode"} /\ ~is_staff(out'.invoker))
       => RefusedWithoutEffect]_vars

\* C9 amended: warn, mute, unmute, purge, slowmode and the four admin
\* commands are refused to an invoker who is not staff, with the notice
\* that permission is missing, and change no state; setting a channel's AI
\* mode is open to every member: a request is refused only for its mode
\* name, and otherwise sets the mode of the channel.
C9_StaffOnlyOperationsAreRefused ==
    [][/\ (out'.op \in StaffOnlyOps /\ ~is_staff(out'.invoker))
          => /\ RefusedWithoutEffect
             /\ out'.notices \in {<<"no_permission">>, <<"not_authorized">>}
       /\ out'.op = "mode"
          => IF out'.rejected
             THEN out'.notices = <<"bad_mode">> /\ UNCHANGED channel_modes
             ELSE /\ Has(channel_modes', "general")
                  /\ channel_modes'["general"] \in AI_MODES]_vars

\* C9 witness: a muted member asked to be unmuted and was refused
C9_Witness ==
    /\ out.op = "unmute"
    /\ out.invoker = "alice"
    /\ out.rejected
    /\ member_roles["alice"] # {}

(***************************************************************************)
(* SpecAi: the AI stage seen from inside.  A member talks in #general and  *)
(* in #ceil-assistant, a moderator mutes the member for a minute, the      *)
(* clock advances to the moment a reversal is due, also while an OpenAI    *)
(* request is in flight.  A handler runs only when the loop is free.       *)
(***************************************************************************)
MaxAiMsgs == 3
MaxAiMutes == 2

AiMsgs == {Msg("alice", "ceil-assistant", c_hello, {}),
           Msg("alice", "general", c_hello, {}),
           Msg("alice", "general", c_banned, {})}

InitAi == InitWith({AbsentFile}, {TRUE}, {<<>>}, {EmptyDict})

RunMessage(m) ==
    /\ LoopFree
    /\ on_message_ask(m)

RunMute(minutes) ==
    /\ LoopFree
    /\ mute("mod", "alice", minutes, {})
    /\ UNCHANGED <<handled, ai_call, posts, inflight>>

RunReversal(t) ==
    /\ LoopFree
    /\ unmute_later(t, {})
    /\ UNCHANGED <<handled, ai_call, posts, inflight>>

NextAi ==
    \/ \E m \in AiMsgs :
           /\ Len(WindowOf(m)) < MaxAiMsgs
           /\ RunMessage(m)
    \/ next_id < MaxAiMutes /\ RunMute(1)
    \/ \E t \in tasks : RunReversal(t)
    \/ \E fail \in {{}, {"reply"}} : ask_returns(fail)
    \/ TickToNextTask /\ UNCHANGED <<handled, ai_call, posts, inflight>>

SpecAi == InitAi /\ [][NextAi]_vars

(***************************************************************************)
(* Claims about the AI stage (SpecAi)                                      *)
(***************************************************************************)
\* C11: while an OpenAI request for one message is in flight, the
\* moderation stages of another arriving message can run, and a deferred
\* reversal that is due can run.
C11_AiCallBlocksNothing ==
    ai_call # NoCall
    => /\ \A m \in AiMsgs : ENABLED RunMessage(m)
       /\ \A t \in tasks : now >= t.at => ENABLED RunReversal(t)

(***************************************************************************)
(* SpecDaily: messages and new members a few seconds before and after      *)
(* midnight UTC                                                            *)
(***************************************************************************)
MaxDailyMsgs == 3
MaxJoins == 2
DailyHorizon == 4

DailyMsgs == {Msg("alice", "general", c_hello, {}), Msg("alice", "general", c_hi, {})}

InitDaily == InitWith({AbsentFile}, {TRUE}, {<<>>}, {EmptyDict})

NextDaily ==
    \/ \E m \in DailyMsgs :
           /\ handled < MaxDailyMsgs
           /\ on_message(m)
           /\ handled' = handled + 1
           /\ UNCHANGED <<ai_call, posts, inflight>>
    \/ /\ Get(new_members_today, Guild, 0) < MaxJoins
       /\ on_member_join("alice", {})
       /\ UNCHANGED <<handled, ai_call, posts, inflight>>
    \/ /\ now + 4 <= StartTime + DailyHorizon
       /\ Tick(4)
       /\ UNCHANGED <<handled, ai_call, posts, inflight>>

SpecDaily == InitDaily /\ [][NextDaily]_vars

(***************************************************************************)
(* Claims about the daily counters (SpecDaily)                             *)
(***************************************************************************)
\* C12: once an event has been observed, the stored reset date is the date
\* of the last event, and each daily count equals the number of events of
\* its kind observed on that date: the first event of a new date, message
\* or join, resets both counts before it is counted.
C12_CountsAreThoseOfTheResetDate ==
    Has(last_stats_reset_date, Guild)
    => /\ last_stats_reset_date[Guild] = hist.seen.day
       /\ Get(messages_today, Guild, 0) = hist.seen.msgs
       /\ Get(new_members_today, Guild, 0) = hist.seen.joins

(***************************************************************************)
(* The experience ledger on its own: add_xp applied to a fresh ledger      *)
(***************************************************************************)
MaxXp == 600

\* the amounts add_xp is called with
Amounts == {0, XP_PER_MESSAGE, 90, 250}

FreshRecord == [xp |-> 0, level |-> 1]

InitXp == InitWith({AbsentFile}, {TRUE}, {<<>>}, {EmptyDict})

NextXp ==
    \E amount \in Amounts :
        /\ Get(xp_data, "alice", FreshRecord).xp + amount <= MaxXp
        /\ award("alice", amount)
        /\ UNCHANGED <<handled, ai_call, posts, inflight>>

SpecXp == InitXp /\ [][NextXp]_vars

\* C13: over any sequence of add_xp calls with non-negative amounts on a
\* fresh ledger, an actor's points and level never decrease, and a call that
\* adds zero points changes neither the level nor the points and reports no
\* level-up.
C13_XpIsMonotoneAndZeroIsIdle ==
    [][out'.op = "award" =>
        LET old == Get(xp_data, out'.member, FreshRecord)
            new == xp_data'[out'.member]
        IN  /\ new.xp >= old.xp
            /\ new.level >= old.level
            /\ out'.amount = 0 => new = old /\ ~out'.levelup]_vars

\* a zero-point call on an actor who is above level 2
C13_Witness ==
    /\ out.op = "award"
    /\ out.amount = 0
    /\ xp_data[out.member].level >= 3

\* what k messages of XP_PER_MESSAGE points make of a fresh ledger
RECURSIVE AfterMessages(_)
AfterMessages(k) ==
    IF k = 0 THEN EmptyDict ELSE add_xp(AfterMessages(k - 1), "alice", XP_PER_MESSAGE)

\* C14: add_xp adds the amount and leaves the level at the first one, from
\* the old level upwards, whose threshold level*100 is above the points, so
\* one call can raise several levels; it returns (true, final level) when
\* the level rose and (false, unchanged level) otherwise.  At 10 points a
\* message a new actor reaches level 2 on exactly the 10th message, and one
\* award of 250 points to a new actor gives level 3 in that call.
C14_LevelUpLoop ==
    [][out'.op = "award" =>
        LET old == Get(xp_data, out'.member, FreshRecord)
            new == xp_data'[out'.member]
        IN  /\ new.xp = old.xp + out'.amount
            /\ new.xp < new.level * 100
            /\ new.level >= old.level
            /\ new.level > old.level => new.xp >= (new.level - 1) * 100
            /\ out'.levelup = (new.level > old.level)
            /\ out'.level = new.level
            /\ old = FreshRecord /\ out'.amount = 250 => new.level = 3 /\ out'.levelup
            /\ \A k \in 1..12 :
                  /\ AfterMessages(k)["alice"].level = IF k < 10 THEN 1 ELSE 2
                  /\ leveled_up(AfterMessages(k - 1), "alice", XP_PER_MESSAGE) = (k = 10)]_vars

\* one award that raised a new actor by two levels
C14_Witness ==
    /\ out.op = "award"
    /\ out.amount = 250
    /\ out.levelup
    /\ xp_data[out.member] = [xp |-> 250, level |-> 3]

(***************************************************************************)
(* SpecMode: members set the AI mode of both channels, with every kind of  *)
(* input                                                                   *)
(***************************************************************************)
n_football == <<"T","o","p","i","c"," "," ","F","o","o","t","b","a","l","l"," ">>
n_topic == <<"t","o","p","i","c"," ">>

NextMode ==
    \E invoker \in Humans, channel \in Channels,
       mode_name \in {<<"c","e","i","l">>, n_fun, n_football, n_topic, n_bogus,
                      <<" ">>, <<>>},
       fail \in {{}, {"post"}} :
        mode(invoker, channel, mode_name, fail) /\ UNCHANGED <<handled, ai_call, posts, inflight>>

SpecMode == InitAdmin /\ [][NextMode]_vars

\* C15: the mode command stores a token of the fixed persona set as it is,
\* stores topic:<text> for `topic <text>` with a text, and for an empty
\* input, an empty topic text or an unknown token replies with an error and
\* leaves channel_modes as it was.
C15_ModeStoresOrRepliesWithError ==
    [][out'.op = "mode" =>
        LET name == Lower(Strip(out'.arg))
            is_topic == StartsWith(name, n_topic)
            text == IF is_topic THEN Strip(SubSeq(name, 7, Len(name))) ELSE <<>>
        IN  IF name \in AI_MODES
            THEN \E c \in Channels : channel_modes' = Put(channel_modes, c, name)
            ELSE IF is_topic /\ text # <<>>
            THEN \E c \in Channels :
                     channel_modes' = Put(channel_modes, c, <<"t","o","p","i","c",":">> \o text)
            ELSE /\ channel_modes' = channel_modes
                 /\ out'.notices = <<"bad_mode">>]_vars

(***************************************************************************)
(* SpecLoad: the operator edits, damages or removes config.json and a      *)
(* moderator has it loaded again                                           *)
(***************************************************************************)
\* what config.json may hold: nothing (absent), text that is no JSON, JSON
\* that is no object, and objects with all keys, without some keys, with a
\* key the program does not know, and with no key at all
LoadFiles ==
    LET changed == [DEFAULT_FLAGS EXCEPT !.link_blocking = FALSE, !.ai_default_mode = m_fun]
        keep(keys) == [k \in keys |-> changed[k]]
        objects == {changed,
                    keep(DOMAIN changed \ {"ai_default_mode"}),
                    keep(DOMAIN changed \ {"link_blocking", "xp_enabled"}),
                    keep({"ai_enabled"}),
                    [k \in DOMAIN changed \cup {"theme"} |->
                        IF k = "theme" THEN TRUE ELSE changed[k]],
                    EmptyDict}
    IN  {AbsentFile, CorruptFile, [CorruptFile EXCEPT !.kind = "other"]}
        \cup {[kind |-> "ok", flags |-> o, banned |-> <<w_spam>>] : o \in objects}
        \cup {[kind |-> "nowords", flags |-> o, banned |-> <<>>] : o \in objects}

NextLoad ==
    \/ \E file \in LoadFiles : EditFile(file) /\ UNCHANGED <<handled, ai_call, posts, inflight>>
    \/ admin_reload("mod", TRUE) /\ UNCHANGED <<handled, ai_call, posts, inflight>>

SpecLoad == InitAdmin /\ [][NextLoad]_vars

\* C18: whatever config.json holds, load_config ends without an exception
\* and leaves every key of DEFAULT_CONFIG defined in config: a key the file
\* has keeps the file's value, a key it lacks takes the default, and a file
\* that is absent or cannot be parsed gives the defaults; the banned-word
\* list is the file's, or else the default list.
C18_LoadAlwaysGivesEveryKey ==
    [][(out'.op = "admin_reload" /\ ~out'.rejected)
       => LET file == config_file
              object == file.kind \in {"ok", "nowords"}
          IN  /\ ~out'.raised
              /\ DOMAIN DEFAULT_FLAGS \subseteq DOMAIN config'.flags
              /\ \A k \in DOMAIN DEFAULT_FLAGS :
                     config'.flags[k] = IF object /\ k \in DOMAIN file.flags
                                        THEN file.flags[k] ELSE DEFAULT_FLAGS[k]
              /\ BannedOf(config', default_banned')
                     = IF file.kind = "ok" THEN file.banned ELSE default_banned]_vars

(***************************************************************************)
(* Claims about the persistence of the config (SpecAdmin)                  *)
(***************************************************************************)
\* C19: every admin command that changes the config (feature toggle,
\* default mode, banned word added or removed) leaves config.json holding
\* what config holds, flags and banned words, so that loading the file
\* again would change neither; and an /admin reload that comes right after
\* such a command leaves the flags and the banned words the filter uses as
\* they were.
C19_MutationsArePersisted ==
    [][/\ (/\ out'.op \in {"admin_toggle", "admin_mode", "admin_bannedwords"}
           /\ ~out'.rejected)
          => /\ config_file'.kind = "ok"
             /\ config_file'.flags = config'.flags
             /\ config_file'.banned = BannedOf(config', default_banned')
             /\ load_config(config_file').flags = config'.flags
             /\ BannedOf(load_config(config_file'), default_banned')
                   = BannedOf(config', default_banned')
       /\ (/\ out.op \in {"admin_toggle", "admin_mode", "admin_bannedwords"}
           /\ ~out.rejected
           /\ out'.op = "admin_reload" /\ ~out'.rejected)
          => /\ config'.flags = config.flags
             /\ BannedOf(config', default_banned') = BannedOf(config, default_banned)
             /\ ~out'.raised]_vars

\* C19 witness: a reload has run after a feature was switched off, the
\* default mode changed and a banned word added, and all three are in force
C19_Witness ==
    /\ out.op = "admin_reload"
    /\ ~out.rejected
    /\ ~config.flags.link_blocking
    /\ config.flags.ai_default_mode = m_fun
    /\ InList(w_spam, BANNED_WORDS)
    /\ config_file.banned = BANNED_WORDS

(***************************************************************************)
(* SpecDispatch: members and another bot talk in both channels, with and   *)
(* without addressing the bot, while a member sets the mode of #general    *)
(* and a moderator changes the default mode and switches the AI on and off *)
(***************************************************************************)
MaxDispatchMsgs == 2

NextDispatch ==
    \/ \E m \in {Msg("alice", "general", c_hello, {}),
                  [Msg("alice", "general", c_hello, {}) EXCEPT !.mentioned = TRUE],
                  Msg("alice", "ceil-assistant", c_hi, {}),
                  Msg("alice", "general", c_banned, {}),
                  Msg("otherbot", "general", c_hello, {}),
                  [Msg("alice", "", c_hello, {}) EXCEPT !.dm = TRUE]} :
           /\ handled < MaxDispatchMsgs
           /\ on_message(m)
           /\ handled' = handled + 1
           /\ UNCHANGED <<ai_call, posts, inflight>>
    \/ \E mode_name \in {n_fun, n_football} :
           mode("alice", "general", mode_name, {}) /\ UNCHANGED <<handled, ai_call, posts, inflight>>
    \/ \E mode_name \in {m_fun, m_ceil} :
           admin_mode("mod", TRUE, mode_name) /\ UNCHANGED <<handled, ai_call, posts, inflight>>
    \/ \E state \in BOOLEAN :
           admin_toggle("mod", TRUE, "ai", state) /\ UNCHANGED <<handled, ai_call, posts, inflight>>

SpecDispatch == InitAdmin /\ [][NextDispatch]_vars

\* C20: a message that comes as far as the AI stage is handed to the AI
\* collaborator exactly when ai_enabled is on and the bot was mentioned, or
\* the channel is one of the AI channels, or the channel has a mode set; the
\* mode handed over is the channel's mode if it has one, else the configured
\* default mode, else ceil; and the stage changes no ledger, no role, no
\* task, no channel mode and no config: they are as stages 1 to 6 left them.
C20_AiDispatchRule ==
    [][out'.op = "message"
       => LET m == out'.msg
              q == ModerationStages(m)
              addressed == \/ m.mentioned
                           \/ m.channel \in DEFAULT_AI_CHANNEL_NAMES
                           \/ Has(channel_modes, m.channel)
              resolved == IF Has(channel_modes, m.channel) THEN channel_modes[m.channel]
                          ELSE IF "ai_default_mode" \in DOMAIN config.flags
                          THEN config.flags.ai_default_mode
                          ELSE m_ceil
          IN  IF q.done THEN ~out'.ai
              ELSE /\ out'.ai <=> (config.flags.ai_enabled /\ addressed)
                   /\ out'.ai => out'.ai_mode = resolved
                   /\ <<last_message_time', spam_tracker', xp_data', xp_file',
                        messages_today', new_members_today', last_stats_reset_date'>>
                        = <<q.lmt, q.spam, q.xp, q.xpf, q.mt, q.nm, q.rd>>
                   /\ <<guild_roles', member_roles', tasks', next_id'>>
                        = <<q.groles, q.mroles, q.tasks, q.nid>>
                   /\ UNCHANGED <<cfgVars, chanVars>>]_vars

\* C20 witness: a message in #general that does not mention the bot was
\* handed over with the topic mode set for the channel, while the default
\* mode is another one
C20_Witness ==
    /\ out.op = "message"
    /\ out.ai
    /\ out.msg.channel = "general"
    /\ ~out.msg.mentioned
    /\ out.ai_mode = <<"t","o","p","i","c",":","f","o","o","t","b","a","l","l">>
    /\ config.flags.ai_default_mode = m_fun

(***************************************************************************)
(* SpecFilter: a member, a moderator and another bot post texts with and   *)
(* without banned words while a moderator changes the list of banned words *)
(* and switches moderation on and off                                      *)
(***************************************************************************)
MaxFilterMsgs == 2

NextFilter ==
    \/ \E author \in {"alice", "mod", "otherbot"},
          content \in {c_shirt, c_banned, c_hello,
                       <<"B","u","l","l","S","h","i","t","t","e","r">>} :
           /\ handled < MaxFilterMsgs
           /\ on_message(Msg(author, "general", content, {}))
           /\ handled' = handled + 1
           /\ UNCHANGED <<ai_call, posts, inflight>>
    \/ \E action \in {"add", "remove"}, word \in {w_shit, n_spam} :
           admin_bannedwords("mod", TRUE, action, word)
           /\ UNCHANGED <<handled, ai_call, posts, inflight>>
    \/ \E state \in BOOLEAN :
           admin_toggle("mod", TRUE, "moderation", state)
           /\ UNCHANGED <<handled, ai_call, posts, inflight>>

SpecFilter == InitAdmin /\ [][NextFilter]_vars

\* C21 (as the claim states it): with "shit" among the banned words and
\* moderation on, the banned-word filter deletes the message "no shirt no
\* shoes".
C21_ShirtIsDeleted ==
    [][(/\ out'.op = "message"
        /\ out'.msg.content = c_shirt
        /\ config.flags.moderation_enabled
        /\ InList(w_shit, BANNED_WORDS))
       => out'.deleted = "banned"]_vars

\* C21 (amended): the banned-word filter deletes a message exactly when
\* moderation is on and some banned word occurs in the lower-cased text as
\* a run of adjacent characters; "no shirt no shoes" holds no such run of
\* "shit" and is not deleted for it.
C21_FilterMatchesAdjacentCharacters ==
    [][out'.op = "message"
       => LET text == Lower(out'.msg.content)
              occurs(w) == \E i \in 1..Len(text) :
                               /\ i + Len(w) - 1 <= Len(text)
                               /\ \A j \in 1..Len(w) : text[i + j - 1] = w[j]
              hit == \E n \in 1..Len(BANNED_WORDS) : occurs(BANNED_WORDS[n])
          IN  /\ (out'.deleted = "banned") <=> (config.flags.moderation_enabled /\ hit)
              /\ (out'.msg.content = c_shirt /\ BANNED_WORDS = <<w_fuck, w_shit, w_bitch>>)
                    => out'.deleted # "banned"]_vars

\* C21 witness: "no shirt no shoes" was posted while "shit" was banned and
\* moderation was on, and it was not deleted
C21_Witness ==
    /\ out.op = "message"
    /\ out.msg.content = c_shirt
    /\ out.deleted = "none"
    /\ config.flags.moderation_enabled
    /\ InList(w_shit, BANNED_WORDS)

\* C22: after any sequence of add_xp calls with non-negative amounts on a
\* fresh ledger, every record has points < level * 100 and
\* level = (points div 100) + 1: each level costs the same 100 points.
C22_LevelIsPointsDiv100Plus1 ==
    \A uid \in DOMAIN xp_data :
        /\ xp_data[uid].xp < xp_data[uid].level * 100
        /\ xp_data[uid].level = (xp_data[uid].xp \div 100) + 1

\* C22 witness: calls of several sizes have brought an actor to level 5 or
\* beyond
C22_Witness ==
    /\ out.op = "award"
    /\ Has(xp_data, "alice")
    /\ xp_data["alice"].level >= 5
    /\ xp_data["alice"].xp % 100 # 0

(***************************************************************************)
(* SpecLive: a member is muted by a moderator and by the spam stage, with  *)
(* notices that are delivered or fail, and may be unmuted by hand; the     *)
(* clock goes on and the event loop runs every task whose sleep has ended  *)
(***************************************************************************)
MaxLiveMutes == 2

NextLive ==
    \/ \E fail \in {{}, {"log"}} :
           /\ Len(WindowOf(Msg("alice", "general", c_hi, fail))) < SPAM_MAX_MESSAGES
           /\ next_id < MaxLiveMutes
           /\ on_message(Msg("alice", "general", c_hi, fail))
           /\ UNCHANGED <<handled, ai_call, posts, inflight>>
    \/ \E fail \in {{}, {"post"}} :
           /\ next_id < MaxLiveMutes
           /\ mute("mod", "alice", 1, fail)
           /\ UNCHANGED <<handled, ai_call, posts, inflight>>
    \/ unmute("mod", "alice", {}) /\ UNCHANGED <<handled, ai_call, posts, inflight>>
    \/ \E t \in tasks : unmute_later(t, {}) /\ UNCHANGED <<handled, ai_call, posts, inflight>>
    \/ TickToNextTask /\ UNCHANGED <<handled, ai_call, posts, inflight>>

\* asyncio.sleep returns once its delay is over and the loop resumes every
\* task that is ready: time passes, and a reversal that is due is run
SpecLive ==
    /\ InitMute
    /\ [][NextLive]_vars
    /\ WF_vars(TickToNextTask /\ UNCHANGED <<handled, ai_call, posts, inflight>>)
    /\ WF_vars(\E t \in tasks : unmute_later(t, {}) /\ UNCHANGED <<handled, ai_call, posts, inflight>>)

\* C23: a member who carries the Muted role, by the mute command or by the
\* auto-mute of the spam stage, is eventually without it, whether or not a
\* moderator unmutes by hand.
C23_MutedIsEventuallyUnmuted ==
    (member_roles["alice"] # {}) ~> (member_roles["alice"] = {})

(***************************************************************************)
(* SpecRace: a moderator mutes two members in a guild that has no Muted    *)
(* role yet; the mute handlers interleave at `await guild.create_role`     *)
(***************************************************************************)
MaxRaceMutes == 3

NextRace ==
    \/ \E member \in {"alice", "otherbot"}, minutes \in MuteMinutes :
           /\ next_id < MaxRaceMutes
           /\ mute_begin("mod", member, minutes, {})
           /\ UNCHANGED <<handled, ai_call, posts>>
    \/ \E h \in inflight : mute_created(h, {}) /\ UNCHANGED <<handled, ai_call, posts>>
    \/ \E t \in tasks : unmute_later(t, {}) /\ UNCHANGED <<handled, ai_call, posts, inflight>>
    \/ TickToNextTask /\ UNCHANGED <<handled, ai_call, posts, inflight>>

SpecRace == InitAdmin /\ [][NextRace]_vars

\* C24: however the handlers interleave, the guild never has more than one
\* role named Muted.
C24_AtMostOneMutedRole == Len(guild_roles) <= 1

(***************************************************************************)
(* SpecDefaults: a moderator adds and removes banned words and reloads,    *)
(* while the operator removes or damages config.json                       *)
(***************************************************************************)
NextDefaults ==
    \/ \E action \in {"add", "remove"}, word \in {n_spam, w_shit} :
           admin_bannedwords("mod", TRUE, action, word)
           /\ UNCHANGED <<handled, ai_call, posts, inflight>>
    \/ \E file \in {AbsentFile, CorruptFile} :
           EditFile(file) /\ UNCHANGED <<handled, ai_call, posts, inflight>>
    \/ admin_reload("mod", TRUE) /\ UNCHANGED <<handled, ai_call, posts, inflight>>

SpecDefaults == InitAdmin /\ [][NextDefaults]_vars

\* C25: whatever banned words were added or removed before, a load that
\* falls back to the defaults (config.json absent or not parsable) gives the
\* banned words fuck, shit, bitch, and the list of DEFAULT_CONFIG still
\* holds exactly these.
C25_DefaultsAreNeverModified ==
    [][(/\ out'.op = "admin_reload" /\ ~out'.rejected
        /\ config_file.kind \in {"absent", "corrupt"})
       => /\ BannedOf(config', default_banned') = <<w_fuck, w_shit, w_bitch>>
          /\ default_banned' = <<w_fuck, w_shit, w_bitch>>]_vars

(***************************************************************************)
(* SpecSummary: members talk and join on two days while the hourly loop    *)
(* comes round, at 18:00 and 20:00 UTC among other times, and a moderator  *)
(* switches the daily summary on and off                                   *)
(***************************************************************************)
MaxSummaryMsgs == 2
SummaryHorizon == 172800

NextSummary ==
    \/ /\ handled < MaxSummaryMsgs
       /\ on_message(Msg("alice", "general", c_hello, {}))
       /\ handled' = handled + 1
       /\ UNCHANGED <<ai_call, posts, inflight>>
    \/ /\ Get(new_members_today, Guild, 0) < MaxJoins
       /\ on_member_join("alice", {})
       /\ UNCHANGED <<handled, ai_call, posts, inflight>>
    \/ \E d \in {64802, 7200, SECONDS_PER_DAY} :
           /\ now + d <= StartTime + SummaryHorizon
           /\ Tick(d)
           /\ UNCHANGED <<handled, ai_call, posts, inflight>>
    \/ \E coord \in BOOLEAN :
           hourly_tasks(coord) /\ UNCHANGED <<handled, ai_call, posts, inflight>>
    \/ \E state \in BOOLEAN :
           admin_toggle("mod", TRUE, "daily", state)
           /\ UNCHANGED <<handled, ai_call, posts, inflight>>

SpecSummary == InitAdmin /\ [][NextSummary]_vars

\* C26: when hourly_tasks posts a daily summary, the message count and the
\* new-member count in it are the numbers of messages and joins observed on
\* the current UTC date, and the run leaves the counters and their reset
\* date as they were.
C26_SummaryReportsTodaysCounts ==
    [][(out'.op = "hourly_tasks" /\ out'.notices # <<>> /\ Head(out'.notices) = "daily_summary")
       => LET today == hist.seen.day = DateOf(now)
          IN  /\ out'.msgs = IF today THEN hist.seen.msgs ELSE 0
              /\ out'.joins = IF today THEN hist.seen.joins ELSE 0
              /\ UNCHANGED <<messages_today, new_members_today,
                             last_stats_reset_date>>]_vars

====
